---- MODULE Spec2Model ----
(***************************************************************************)
(* Model of hanziconv.HanziConv (src/hanziconv/hanziconv.py).              *)
(*                                                                         *)
(* A Python str is modelled as a sequence of one-character strings, so     *)
(* that len(), split(), replace(), find(), `in` and indexing are computed  *)
(* the way CPython computes them and not assumed.  The two class           *)
(* attributes __simplified_charmap and __traditional_charmap are the       *)
(* program state; the remaining variables record the last call (its        *)
(* arguments, what it raised, what it returned and the inventories it      *)
(* started from).                                                          *)
(*                                                                         *)
(* Only decoded text is passed to the conversion functions: the            *)
(* bytes.decode('utf-8') branch of __convert is not exercised.             *)
(***************************************************************************)
EXTENDS Integers, Sequences, FiniteSets, TLC

VARIABLES simplified_charmap, traditional_charmap,
          op, arg1, arg2, raised, ret_text, ret_bool,
          old_simplified, old_traditional,
          writer, reader

vars == <<simplified_charmap, traditional_charmap,
          op, arg1, arg2, raised, ret_text, ret_bool,
          old_simplified, old_traditional,
          writer, reader>>

(***************************************************************************)
(* Bounds and input alphabets                                              *)
(***************************************************************************)
MaxInv == 3
MaxArg == 2
MaxText == 2
MaxSameText == 1
MaxWideArg == 3

\* characters that may stand in an inventory or in a text to convert
Chars == {"a", "b", "c"}
\* characters a caller passes to the two mutators, and the delimiter
ArgChars == {"a", "b"}
Space == " "

StringsUpTo(S, n) == UNION {[1..k -> S] : k \in 0..n}

ArgStrings == StringsUpTo(ArgChars \cup {Space}, MaxArg)
Texts == StringsUpTo(Chars, MaxText)
SameTexts == StringsUpTo(Chars, MaxSameText)
\* arguments long enough to hold two delimited groups
WideArgStrings == StringsUpTo(ArgChars \cup {Space}, MaxWideArg)

\* Seed inventories (charmap.simplified_charmap, charmap.traditional_charmap):
\* equal length, index i of one is the counterpart of index i of the other;
\* "c" is written the same way in both scripts.
SeedPairs ==
    { <<(<<"a", "c", "b">>), (<<"b", "c", "a">>)>> }

(***************************************************************************)
(* Python str primitives                                                   *)
(***************************************************************************)
\* str.split(): maximal runs of non-whitespace characters, in order
RECURSIVE SplitFrom(_, _, _)
SplitFrom(s, cur, acc) ==
    IF s = <<>>
    THEN IF cur = <<>> THEN acc ELSE Append(acc, cur)
    ELSE IF Head(s) = Space
         THEN SplitFrom(Tail(s), <<>>, IF cur = <<>> THEN acc ELSE Append(acc, cur))
         ELSE SplitFrom(Tail(s), Append(cur, Head(s)), acc)

Split(s) == SplitFrom(s, <<>>, <<>>)

\* str.replace(old, ''): one left-to-right pass over non-overlapping matches
RECURSIVE Replace(_, _)
Replace(str, old) ==
    IF Len(str) < Len(old) THEN str
    ELSE IF SubSeq(str, 1, Len(old)) = old
         THEN Replace(SubSeq(str, Len(old) + 1, Len(str)), old)
         ELSE <<Head(str)>> \o Replace(Tail(str), old)

\* `sub in str`: substring test
Contains(str, sub) ==
    \E i \in 1..(Len(str) - Len(sub) + 1) : SubSeq(str, i, i + Len(sub) - 1) = sub

\* str.find(c): 0-based index of the first occurrence, -1 when absent
RECURSIVE FindFrom(_, _, _)
FindFrom(str, c, k) ==
    IF k > Len(str) THEN -1
    ELSE IF str[k] = c THEN k - 1
    ELSE FindFrom(str, c, k + 1)

\* str.rfind(c) in place of str.find(c): the last occurrence
FindLast(str, c) ==
    IF \E i \in 1..Len(str) : str[i] = c
    THEN (CHOOSE i \in 1..Len(str) :
              str[i] = c /\ \A j \in (i + 1)..Len(str) : str[j] # c) - 1
    ELSE -1

\* 0 in place of -1 for a character that does not occur
FindAbsentZero(str, c) ==
    IF FindFrom(str, c, 1) = -1 THEN 0 ELSE FindFrom(str, c, 1)

Find(str, c) == FindFrom(str, c, 1)

\* ''.join(groups)
RECURSIVE Join(_)
Join(groups) == IF groups = <<>> THEN <<>> ELSE Head(groups) \o Join(Tail(groups))

(***************************************************************************)
(* ignore_char_map                                                         *)
(***************************************************************************)
\* the loop `for g in chars.split(): charmap = charmap.replace(g, '')`
RECURSIVE RemoveGroups(_, _)
RemoveGroups(charmap, groups) ==
    IF groups = <<>> THEN charmap
    ELSE RemoveGroups(Replace(charmap, Head(groups)), Tail(groups))

\* result of ignore_char_map on inventories (simp, trad): what it raises and
\* the inventories it leaves behind
IgnoreResult(simp, trad, simplified_chars, traditional_chars) ==
    IF Len(simplified_chars) # Len(traditional_chars)
    THEN [raised |-> "ValueError_length", simp |-> simp, trad |-> trad]
    ELSE LET ns == RemoveGroups(simp, Split(simplified_chars))
             nt == RemoveGroups(trad, Split(traditional_chars))
         IN  [raised |-> IF Len(ns) # Len(nt) THEN "ValueError_match" ELSE "none",
              simp |-> ns, trad |-> nt]

(***************************************************************************)
(* extend_char_map                                                         *)
(***************************************************************************)
\* the membership test dropped: every group is taken as new
ExtraCharsNoSkip(charmap, groups) == groups

\* the loop collecting the groups that are not substrings of the charmap
ExtraChars(charmap, groups) ==
    SelectSeq(groups, LAMBDA g : ~Contains(charmap, g))

\* the charmaps extended before the staged counts are compared
ExtendResultAppendFirst(simp, trad, simplified_chars, traditional_chars) ==
    IF Len(simplified_chars) # Len(traditional_chars)
    THEN [raised |-> "ValueError_length", simp |-> simp, trad |-> trad]
    ELSE LET es == ExtraChars(simp, Split(simplified_chars))
             et == ExtraChars(trad, Split(traditional_chars))
         IN  [raised |-> IF Len(es) # Len(et) THEN "ValueError_match" ELSE "none",
              simp |-> simp \o Join(es), trad |-> trad \o Join(et)]

\* the staged characters put in front of the charmaps
ExtendResultPrepend(simp, trad, simplified_chars, traditional_chars) ==
    IF Len(simplified_chars) # Len(traditional_chars)
    THEN [raised |-> "ValueError_length", simp |-> simp, trad |-> trad]
    ELSE LET es == ExtraChars(simp, Split(simplified_chars))
             et == ExtraChars(trad, Split(traditional_chars))
         IN  IF Len(es) # Len(et)
             THEN [raised |-> "ValueError_match", simp |-> simp, trad |-> trad]
             ELSE [raised |-> "none", simp |-> Join(es) \o simp, trad |-> Join(et) \o trad]

\* result of extend_char_map on inventories (simp, trad)
ExtendResult(simp, trad, simplified_chars, traditional_chars) ==
    IF Len(simplified_chars) # Len(traditional_chars)
    THEN [raised |-> "ValueError_length", simp |-> simp, trad |-> trad]
    ELSE LET es == ExtraChars(simp, Split(simplified_chars))
             et == ExtraChars(trad, Split(traditional_chars))
         IN  IF Len(es) # Len(et)
             THEN [raised |-> "ValueError_match", simp |-> simp, trad |-> trad]
             ELSE [raised |-> "none", simp |-> simp \o Join(es), trad |-> trad \o Join(et)]

(***************************************************************************)
(* __convert, toSimplified, toTraditional, same                            *)
(***************************************************************************)
\* the else branch dropped: an unmapped character is not appended
ConvertCharDropUnmapped(c, fromMap, toMap) ==
    LET index == Find(fromMap, c)
    IN  IF index # -1
        THEN IF index < Len(toMap)
             THEN [raised |-> "none", emit |-> <<toMap[index + 1]>>]
             ELSE [raised |-> "IndexError", emit |-> <<>>]
        ELSE [raised |-> "none", emit |-> <<>>]

\* one iteration of `for c in text`: what is appended to `final`, or the
\* IndexError of toMap[index] when index is past the end of toMap
ConvertChar(c, fromMap, toMap) ==
    LET index == Find(fromMap, c)
    IN  IF index # -1
        THEN IF index < Len(toMap)
             THEN [raised |-> "none", emit |-> <<toMap[index + 1]>>]
             ELSE [raised |-> "IndexError", emit |-> <<>>]
        ELSE [raised |-> "none", emit |-> <<c>>]

RECURSIVE ConvertLoop(_, _, _, _)
ConvertLoop(text, fromMap, toMap, final) ==
    IF text = <<>> THEN [raised |-> "none", text |-> final]
    ELSE LET r == ConvertChar(Head(text), fromMap, toMap)
         IN  IF r.raised # "none"
             THEN [raised |-> r.raised, text |-> <<>>]
             ELSE ConvertLoop(Tail(text), fromMap, toMap, final \o r.emit)

\* toMap left at its default when toTraditional is False
convertToMapNotSwapped(simp, trad, text, toTrad) ==
    LET fromMap == IF toTrad THEN simp ELSE trad
        toMap   == trad
    IN  ConvertLoop(text, fromMap, toMap, <<>>)

\* __convert(text, toTraditional) on inventories (simp, trad)
convert(simp, trad, text, toTrad) ==
    LET fromMap == IF toTrad THEN simp ELSE trad
        toMap   == IF toTrad THEN trad ELSE simp
    IN  ConvertLoop(text, fromMap, toMap, <<>>)

\* text2 compared as given, without toSimplified
SameResultSecondRaw(simp, trad, text1, text2) ==
    LET t1 == convert(simp, trad, text1, FALSE)
    IN  IF t1.raised # "none" THEN [raised |-> t1.raised, bool |-> FALSE]
        ELSE [raised |-> "none", bool |-> (t1.text = text2)]

\* same(text1, text2): the first toSimplified that raises ends the call
SameResult(simp, trad, text1, text2) ==
    LET t1 == convert(simp, trad, text1, FALSE)
        t2 == convert(simp, trad, text2, FALSE)
    IN  IF t1.raised # "none" THEN [raised |-> t1.raised, bool |-> FALSE]
        ELSE IF t2.raised # "none" THEN [raised |-> t2.raised, bool |-> FALSE]
        ELSE [raised |-> "none", bool |-> (t1.text = t2.text)]

(***************************************************************************)
(* State machine                                                           *)
(*                                                                         *)
(* A call binds its arguments, runs the whole method body and leaves its   *)
(* frame (arguments, exception or return value, the inventories it started *)
(* from) in op .. old_traditional.  Return discards the frame; the next    *)
(* call is made from the inventories the previous one left behind.         *)
(* writer and reader are the two threads of the statement-level            *)
(* specification further down; here no thread is stopped inside a method.  *)
(***************************************************************************)
NoWriter == [pc |-> "none", groups |-> <<>>, extra_s |-> <<>>, extra_t |-> <<>>]
NoReader == [pc |-> "none", toTrad |-> FALSE, text |-> <<>>,
             fromMap |-> <<>>, toMap |-> <<>>, raised |-> "none"]

Init ==
    /\ \E p \in SeedPairs :
          /\ simplified_charmap = p[1]
          /\ traditional_charmap = p[2]
    /\ op = "idle"
    /\ arg1 = <<>>
    /\ arg2 = <<>>
    /\ raised = "none"
    /\ ret_text = <<>>
    /\ ret_bool = FALSE
    /\ old_simplified = <<>>
    /\ old_traditional = <<>>
    /\ writer = NoWriter
    /\ reader = NoReader

Frame(name, a, b, r_raised, r_text, r_bool) ==
    /\ op' = name
    /\ arg1' = a
    /\ arg2' = b
    /\ raised' = r_raised
    /\ ret_text' = r_text
    /\ ret_bool' = r_bool
    /\ old_simplified' = simplified_charmap
    /\ old_traditional' = traditional_charmap
    /\ UNCHANGED <<writer, reader>>

\* r is the outcome of a mutator; MaxInv caps the growth of the inventories
Mutate(name, r, a, b) ==
    /\ Len(r.simp) <= MaxInv
    /\ Len(r.trad) <= MaxInv
    /\ simplified_charmap' = r.simp
    /\ traditional_charmap' = r.trad
    /\ Frame(name, a, b, r.raised, <<>>, FALSE)

ignore_char_map ==
    /\ op = "idle"
    /\ \E a \in ArgStrings, b \in ArgStrings :
        Mutate("ignore_char_map",
               IgnoreResult(simplified_charmap, traditional_charmap, a, b), a, b)

extend_char_map ==
    /\ op = "idle"
    /\ \E a \in ArgStrings, b \in ArgStrings :
        Mutate("extend_char_map",
               ExtendResult(simplified_charmap, traditional_charmap, a, b), a, b)

\* fromMap / toMap bound to the class attributes instead of locals
toSimplifiedRebindsCharmaps ==
    /\ op = "idle"
    /\ \E text \in Texts :
        LET r == convert(simplified_charmap, traditional_charmap, text, FALSE)
        IN  /\ Frame("toSimplified", text, <<>>, r.raised, r.text, FALSE)
            /\ simplified_charmap' = traditional_charmap
            /\ traditional_charmap' = simplified_charmap

toSimplified ==
    /\ op = "idle"
    /\ \E text \in Texts :
        LET r == convert(simplified_charmap, traditional_charmap, text, FALSE)
        IN  /\ Frame("toSimplified", text, <<>>, r.raised, r.text, FALSE)
            /\ UNCHANGED <<simplified_charmap, traditional_charmap>>

toTraditional ==
    /\ op = "idle"
    /\ \E text \in Texts :
        LET r == convert(simplified_charmap, traditional_charmap, text, TRUE)
        IN  /\ Frame("toTraditional", text, <<>>, r.raised, r.text, FALSE)
            /\ UNCHANGED <<simplified_charmap, traditional_charmap>>

same ==
    /\ op = "idle"
    /\ \E text1 \in SameTexts, text2 \in SameTexts :
        LET r == SameResult(simplified_charmap, traditional_charmap, text1, text2)
        IN  /\ Frame("same", text1, text2, r.raised, <<>>, r.bool)
            /\ UNCHANGED <<simplified_charmap, traditional_charmap>>

Return ==
    /\ op # "idle"
    /\ op' = "idle"
    /\ arg1' = <<>>
    /\ arg2' = <<>>
    /\ raised' = "none"
    /\ ret_text' = <<>>
    /\ ret_bool' = FALSE
    /\ old_simplified' = <<>>
    /\ old_traditional' = <<>>
    /\ UNCHANGED <<simplified_charmap, traditional_charmap, writer, reader>>

Next ==
    \/ ignore_char_map
    \/ extend_char_map
    \/ toSimplified
    \/ toTraditional
    \/ same
    \/ Return

Spec == Init /\ [][Next]_vars

(***************************************************************************)
(* The two mutators called with arguments of up to MaxWideArg characters   *)
(* (two groups in one call); the conversions are left out.                 *)
(***************************************************************************)
ignore_char_map_wide ==
    /\ op = "idle"
    /\ \E a \in WideArgStrings, b \in WideArgStrings :
        Mutate("ignore_char_map",
               IgnoreResult(simplified_charmap, traditional_charmap, a, b), a, b)

extend_char_map_wide ==
    /\ op = "idle"
    /\ \E a \in WideArgStrings, b \in WideArgStrings :
        Mutate("extend_char_map",
               ExtendResult(simplified_charmap, traditional_charmap, a, b), a, b)

NextWide ==
    \/ ignore_char_map_wide
    \/ extend_char_map_wide
    \/ Return

SpecWide == Init /\ [][NextWide]_vars

(***************************************************************************)
(* Statement-level specification: one thread runs one mutator call         *)
(* (op, arg1, arg2), another runs one __convert call; a step is one        *)
(* statement of the method, with the line number of the statement as the   *)
(* thread's position.  The class attributes are the only shared state;     *)
(* the code takes no lock.  old_simplified / old_traditional keep the      *)
(* inventories before the mutator call.                                    *)
(***************************************************************************)
InitConc ==
    /\ \E p \in SeedPairs :
          /\ simplified_charmap = p[1]
          /\ traditional_charmap = p[2]
          /\ old_simplified = p[1]
          /\ old_traditional = p[2]
    /\ op \in {"ignore_char_map", "extend_char_map"}
    /\ arg1 \in ArgStrings
    /\ arg2 \in ArgStrings
    /\ raised = "none"
    /\ ret_text = <<>>
    /\ ret_bool = FALSE
    /\ writer = [pc |-> IF op = "ignore_char_map" THEN "i49" ELSE "e73",
                 groups |-> <<>>, extra_s |-> <<>>, extra_t |-> <<>>]
    /\ \E t \in BOOLEAN, text \in Texts :
          reader = [pc |-> "c111", toTrad |-> t, text |-> text,
                    fromMap |-> <<>>, toMap |-> <<>>, raised |-> "none"]

\* what a statement of the mutator leaves alone besides the charmaps
WriterFrame ==
    UNCHANGED <<op, arg1, arg2, ret_text, ret_bool,
                old_simplified, old_traditional, reader>>

\* what a statement of __convert leaves alone
ReaderFrame ==
    UNCHANGED <<simplified_charmap, traditional_charmap, op, arg1, arg2,
                raised, ret_bool, old_simplified, old_traditional, writer>>

\* lines 49-51 and 73-75: the length test, then .split() of the first loop
mutator_check_length ==
    /\ writer.pc \in {"i49", "e73"}
    /\ IF Len(arg1) # Len(arg2)
       THEN /\ raised' = "ValueError_length"
            /\ writer' = [writer EXCEPT !.pc = "done"]
       ELSE /\ raised' = raised
            /\ writer' = [writer EXCEPT
                              !.pc = IF writer.pc = "i49" THEN "i53" ELSE "e78",
                              !.groups = Split(arg1)]
    /\ UNCHANGED <<simplified_charmap, traditional_charmap>>
    /\ WriterFrame

\* lines 53-55: one iteration of the loop over simplified_chars.split()
ignore_remove_simplified ==
    /\ writer.pc = "i53"
    /\ IF writer.groups = <<>>
       THEN /\ writer' = [writer EXCEPT !.pc = "i57", !.groups = Split(arg2)]
            /\ UNCHANGED simplified_charmap
       ELSE /\ simplified_charmap' = Replace(simplified_charmap, Head(writer.groups))
            /\ writer' = [writer EXCEPT !.groups = Tail(writer.groups)]
    /\ UNCHANGED <<traditional_charmap, raised>>
    /\ WriterFrame

\* lines 57-59: one iteration of the loop over traditional_chars.split()
ignore_remove_traditional ==
    /\ writer.pc = "i57"
    /\ IF writer.groups = <<>>
       THEN /\ writer' = [writer EXCEPT !.pc = "i61"]
            /\ UNCHANGED traditional_charmap
       ELSE /\ traditional_charmap' = Replace(traditional_charmap, Head(writer.groups))
            /\ writer' = [writer EXCEPT !.groups = Tail(writer.groups)]
    /\ UNCHANGED <<simplified_charmap, raised>>
    /\ WriterFrame

\* lines 61-63: the consistency test after the removals
ignore_check_match ==
    /\ writer.pc = "i61"
    /\ raised' = IF Len(simplified_charmap) # Len(traditional_charmap)
                 THEN "ValueError_match" ELSE "none"
    /\ writer' = [writer EXCEPT !.pc = "done"]
    /\ UNCHANGED <<simplified_charmap, traditional_charmap>>
    /\ WriterFrame

\* lines 77-82: one iteration of the staging loop over simplified_chars.split()
extend_stage_simplified ==
    /\ writer.pc = "e78"
    /\ IF writer.groups = <<>>
       THEN writer' = [writer EXCEPT !.pc = "e85", !.groups = Split(arg2)]
       ELSE writer' = [writer EXCEPT
                          !.groups = Tail(writer.groups),
                          !.extra_s = IF Contains(simplified_charmap, Head(writer.groups))
                                      THEN writer.extra_s
                                      ELSE Append(writer.extra_s, Head(writer.groups))]
    /\ UNCHANGED <<simplified_charmap, traditional_charmap, raised>>
    /\ WriterFrame

\* lines 84-89: one iteration of the staging loop over traditional_chars.split()
extend_stage_traditional ==
    /\ writer.pc = "e85"
    /\ IF writer.groups = <<>>
       THEN writer' = [writer EXCEPT !.pc = "e91"]
       ELSE writer' = [writer EXCEPT
                          !.groups = Tail(writer.groups),
                          !.extra_t = IF Contains(traditional_charmap, Head(writer.groups))
                                      THEN writer.extra_t
                                      ELSE Append(writer.extra_t, Head(writer.groups))]
    /\ UNCHANGED <<simplified_charmap, traditional_charmap, raised>>
    /\ WriterFrame

\* lines 91-93: the staged lists compared
extend_check_match ==
    /\ writer.pc = "e91"
    /\ IF Len(writer.extra_s) # Len(writer.extra_t)
       THEN /\ raised' = "ValueError_match"
            /\ writer' = [writer EXCEPT !.pc = "done"]
       ELSE /\ raised' = raised
            /\ writer' = [writer EXCEPT !.pc = "e95"]
    /\ UNCHANGED <<simplified_charmap, traditional_charmap>>
    /\ WriterFrame

\* line 95
extend_append_simplified ==
    /\ writer.pc = "e95"
    /\ simplified_charmap' = simplified_charmap \o Join(writer.extra_s)
    /\ writer' = [writer EXCEPT !.pc = "e96"]
    /\ UNCHANGED <<traditional_charmap, raised>>
    /\ WriterFrame

\* line 96
extend_append_traditional ==
    /\ writer.pc = "e96"
    /\ traditional_charmap' = traditional_charmap \o Join(writer.extra_t)
    /\ writer' = [writer EXCEPT !.pc = "done"]
    /\ UNCHANGED <<simplified_charmap, raised>>
    /\ WriterFrame

\* line 111: fromMap = cls.__simplified_charmap
convert_bind_fromMap ==
    /\ reader.pc = "c111"
    /\ reader' = [reader EXCEPT !.pc = "c112", !.fromMap = simplified_charmap]
    /\ UNCHANGED ret_text
    /\ ReaderFrame

\* line 112: toMap = cls.__traditional_charmap
convert_bind_toMap ==
    /\ reader.pc = "c112"
    /\ reader' = [reader EXCEPT
                      !.pc = IF reader.toTrad THEN "c117" ELSE "c114",
                      !.toMap = traditional_charmap]
    /\ UNCHANGED ret_text
    /\ ReaderFrame

\* line 114: fromMap = cls.__traditional_charmap
convert_rebind_fromMap ==
    /\ reader.pc = "c114"
    /\ reader' = [reader EXCEPT !.pc = "c115", !.fromMap = traditional_charmap]
    /\ UNCHANGED ret_text
    /\ ReaderFrame

\* line 115: toMap = cls.__simplified_charmap
convert_rebind_toMap ==
    /\ reader.pc = "c115"
    /\ reader' = [reader EXCEPT !.pc = "c117", !.toMap = simplified_charmap]
    /\ UNCHANGED ret_text
    /\ ReaderFrame

\* lines 117-124: the loop, which works on the two locals only
convert_loop ==
    /\ reader.pc = "c117"
    /\ LET r == ConvertLoop(reader.text, reader.fromMap, reader.toMap, <<>>)
       IN  /\ reader' = [reader EXCEPT !.pc = "done", !.raised = r.raised]
           /\ ret_text' = r.text
    /\ ReaderFrame

NextConc ==
    \/ mutator_check_length
    \/ ignore_remove_simplified
    \/ ignore_remove_traditional
    \/ ignore_check_match
    \/ extend_stage_simplified
    \/ extend_stage_traditional
    \/ extend_check_match
    \/ extend_append_simplified
    \/ extend_append_traditional
    \/ convert_bind_fromMap
    \/ convert_bind_toMap
    \/ convert_rebind_fromMap
    \/ convert_rebind_toMap
    \/ convert_loop

SpecConc == InitConc /\ [][NextConc]_vars

TypeOK ==
    /\ simplified_charmap \in Seq(Chars)
    /\ traditional_charmap \in Seq(Chars)
    /\ op \in {"idle", "ignore_char_map", "extend_char_map",
               "toSimplified", "toTraditional", "same"}
    /\ raised \in {"none", "ValueError_length", "ValueError_match", "IndexError"}
    /\ ret_bool \in BOOLEAN

(***************************************************************************)
(* Vocabulary of the properties                                            *)
(***************************************************************************)
Mutators == {"ignore_char_map", "extend_char_map"}
Converters == {"toSimplified", "toTraditional"}

Occurs(charmap, c) == \E i \in 1..Len(charmap) : charmap[i] = c
Count(charmap, c) == Cardinality({i \in 1..Len(charmap) : charmap[i] = c})
\* smallest 1-based index of c in charmap (c occurs)
FirstIndex(charmap, c) ==
    CHOOSE i \in 1..Len(charmap) :
        charmap[i] = c /\ \A j \in 1..(i - 1) : charmap[j] # c
\* the characters an argument lists, whatever group they stand in
Listed(chars) == {chars[i] : i \in {j \in 1..Len(chars) : chars[j] # Space}}
\* number of characters of an argument, delimiters not counted
FlatLen(chars) == Cardinality({i \in 1..Len(chars) : chars[i] # Space})

\* source and target inventory of the conversion in the current frame
SourceMap == IF op = "toTraditional" THEN simplified_charmap ELSE traditional_charmap
TargetMap == IF op = "toTraditional" THEN traditional_charmap ELSE simplified_charmap

(***************************************************************************)
(* C1 - Invariant I1: in every state reachable by any sequence of          *)
(* ignore_char_map and extend_char_map calls, successful or failing, the   *)
(* two inventories have the same length.                                   *)
(***************************************************************************)
C1_EqualLength == Len(simplified_charmap) = Len(traditional_charmap)

(***************************************************************************)
(* C2 - Whenever ignore_char_map or extend_char_map raises, both           *)
(* inventories are the same sequences after the call as before it.         *)
(***************************************************************************)
C2_FailedMutationChangesNothing ==
    (op \in Mutators /\ raised # "none") =>
        /\ simplified_charmap = old_simplified
        /\ traditional_charmap = old_traditional

(***************************************************************************)
(* C3 - Invariant I2 under ignore_char_map: after a call that returns      *)
(* without error, two characters that stood at the same index before the   *)
(* call and were not removed (here: are not listed in the arguments at     *)
(* all) still stand at a common index.                                     *)
(***************************************************************************)
C3_IgnoreKeepsPairsAligned ==
    (op = "ignore_char_map" /\ raised = "none") =>
        \A i \in 1..Len(old_simplified) :
            ( /\ i <= Len(old_traditional)
              /\ old_simplified[i] \notin Listed(arg1)
              /\ old_traditional[i] \notin Listed(arg2) )
            => \E j \in 1..Len(simplified_charmap) :
                   /\ j <= Len(traditional_charmap)
                   /\ simplified_charmap[j] = old_simplified[i]
                   /\ traditional_charmap[j] = old_traditional[i]

(***************************************************************************)
(* C4 - convert is a per-character first-match lookup: the k-th output     *)
(* character is target[i] for the smallest i with source[i] equal to the   *)
(* k-th input character, or that input character itself when it does not   *)
(* occur in the source inventory.  The call produces no output exactly     *)
(* when some such target[i] does not exist.                                *)
(***************************************************************************)
C4_Expected(c) ==
    IF Occurs(SourceMap, c) THEN TargetMap[FirstIndex(SourceMap, c)] ELSE c

C4_Defined(c) ==
    Occurs(SourceMap, c) => FirstIndex(SourceMap, c) <= Len(TargetMap)

C4_FirstMatchLookup ==
    op \in Converters =>
        IF \A k \in 1..Len(arg1) : C4_Defined(arg1[k])
        THEN /\ raised = "none"
             /\ Len(ret_text) = Len(arg1)
             /\ \A k \in 1..Len(arg1) : ret_text[k] = C4_Expected(arg1[k])
        ELSE raised = "IndexError"

\* a converted character occurs twice in the source inventory, with
\* different counterparts, and the first one was emitted
C4_Witness ==
    /\ op \in Converters
    /\ raised = "none"
    /\ \E k \in 1..Len(arg1) :
          /\ Count(SourceMap, arg1[k]) >= 2
          /\ \E i \in 1..Len(SourceMap) :
                /\ SourceMap[i] = arg1[k]
                /\ i <= Len(TargetMap)
                /\ TargetMap[i] # ret_text[k]
          /\ ret_text[k] # arg1[k]

(***************************************************************************)
(* C5 - In every reachable state toSimplified, toTraditional and same      *)
(* complete without error for every decoded-text input.                    *)
(***************************************************************************)
C5_ConversionNeverRaises ==
    op \in (Converters \cup {"same"}) => raised = "none"

(***************************************************************************)
(* C6 - The mutators raise the arity-mismatch error, changing nothing,     *)
(* exactly when the two arguments differ in their number of characters     *)
(* after flattening (whitespace delimiters not counted).                   *)
(***************************************************************************)
C6_ArityErrorIffFlattenedDiffer ==
    op \in Mutators =>
        /\ (raised = "ValueError_length") <=> (FlatLen(arg1) # FlatLen(arg2))
        /\ raised = "ValueError_length" =>
              /\ simplified_charmap = old_simplified
              /\ traditional_charmap = old_traditional

C8_ExtendIdempotent ==
    (op = "extend_char_map" /\ raised = "none") =>
        ExtendResult(simplified_charmap, traditional_charmap, arg1, arg2)
            = [raised |-> "none",
               simp |-> simplified_charmap,
               trad |-> traditional_charmap]

\* the first call appended to both inventories
C8_Witness ==
    /\ op = "extend_char_map"
    /\ raised = "none"
    /\ Len(simplified_charmap) > Len(old_simplified)
    /\ Len(traditional_charmap) > Len(old_traditional)

(***************************************************************************)
(* C9 - The output of convert has exactly as many characters as the input; *)
(* position k of the output holds position k of the input or its           *)
(* substitute from the target inventory.                                   *)
(***************************************************************************)
C9_LengthPreserved ==
    (op \in Converters /\ raised = "none") =>
        /\ Len(ret_text) = Len(arg1)
        /\ \A k \in 1..Len(arg1) :
              \/ ret_text[k] = arg1[k] /\ ~Occurs(SourceMap, arg1[k])
              \/ Occurs(SourceMap, arg1[k]) /\ Occurs(TargetMap, ret_text[k])

\* a text of two characters, one substituted and one passed through
C9_Witness ==
    /\ op \in Converters
    /\ raised = "none"
    /\ Len(arg1) = 2
    /\ Len(ret_text) = 2
    /\ \E k \in 1..2 : Occurs(SourceMap, arg1[k]) /\ ret_text[k] # arg1[k]
    /\ \E k \in 1..2 : ~Occurs(SourceMap, arg1[k])

(***************************************************************************)
(* C10 - Round trip: a character c that occurs exactly once in the         *)
(* simplified inventory, at an index i whose counterpart traditional[i]    *)
(* occurs exactly once in the traditional inventory, satisfies             *)
(* toSimplified(toTraditional(c)) = c; symmetrically for a traditional     *)
(* character.                                                              *)
(***************************************************************************)
Uncollided(c) ==
    /\ Count(SourceMap, c) = 1
    /\ FirstIndex(SourceMap, c) <= Len(TargetMap)
    /\ Count(TargetMap, TargetMap[FirstIndex(SourceMap, c)]) = 1

C10_RoundTrip ==
    (op \in Converters /\ Len(arg1) = 1 /\ Uncollided(arg1[1])) =>
        /\ raised = "none"
        /\ convert(simplified_charmap, traditional_charmap, ret_text,
                   op = "toSimplified")
              = [raised |-> "none", text |-> arg1]

\* an uncollided character that the conversion changed, in an inventory
\* state where another character is collided
C10_Witness ==
    /\ op \in Converters
    /\ Len(arg1) = 1
    /\ Uncollided(arg1[1])
    /\ raised = "none"
    /\ ret_text # arg1
    /\ \E c \in Chars : Count(SourceMap, c) >= 2

(***************************************************************************)
(* C11 - same(a, b) returns true if and only if toSimplified(a) and        *)
(* toSimplified(b) are the same character sequence; hence same(text, text) *)
(* is true and same(a, b) = same(b, a).  The call produces no value        *)
(* exactly when one of the two toSimplified calls does not (C5).           *)
(***************************************************************************)
\* simplified form of one character, by first match in the traditional inventory
C11_Simplified(c) ==
    IF Occurs(traditional_charmap, c)
    THEN simplified_charmap[FirstIndex(traditional_charmap, c)]
    ELSE c

C11_HasSimplified(text) ==
    \A k \in 1..Len(text) :
        Occurs(traditional_charmap, text[k]) =>
            FirstIndex(traditional_charmap, text[k]) <= Len(simplified_charmap)

C11_SameIsSimplifiedEquality ==
    op = "same" =>
        IF C11_HasSimplified(arg1) /\ C11_HasSimplified(arg2)
        THEN /\ raised = "none"
             /\ ret_bool <=>
                   /\ Len(arg1) = Len(arg2)
                   /\ \A k \in 1..Len(arg1) :
                         C11_Simplified(arg1[k]) = C11_Simplified(arg2[k])
             /\ arg1 = arg2 => ret_bool
             /\ SameResult(simplified_charmap, traditional_charmap, arg2, arg1)
                   = [raised |-> "none", bool |-> ret_bool]
        ELSE /\ raised = "IndexError"
             /\ SameResult(simplified_charmap, traditional_charmap, arg2, arg1).raised
                   = "IndexError"

\* two different texts with the same simplified form
C11_Witness ==
    /\ op = "same"
    /\ raised = "none"
    /\ arg1 # arg2
    /\ Len(arg1) = 1
    /\ ret_bool

(***************************************************************************)
(* C12 - Pass-through: a character that occurs in neither inventory is     *)
(* emitted unchanged, at the same position, by toSimplified and by         *)
(* toTraditional.                                                          *)
(***************************************************************************)
InNeither(c) ==
    ~Occurs(simplified_charmap, c) /\ ~Occurs(traditional_charmap, c)

C12_PassThrough ==
    op \in Converters =>
        /\ raised = "none" =>
              \A k \in 1..Len(arg1) :
                  InNeither(arg1[k]) =>
                      k <= Len(ret_text) /\ ret_text[k] = arg1[k]
        /\ (\A k \in 1..Len(arg1) : InNeither(arg1[k])) =>
              raised = "none" /\ ret_text = arg1

\* a text holding a character of neither inventory next to a substituted one
C12_Witness ==
    /\ op \in Converters
    /\ raised = "none"
    /\ Len(arg1) = 2
    /\ Len(simplified_charmap) > 0
    /\ \E k \in 1..2 : InNeither(arg1[k]) /\ ret_text[k] = arg1[k]
    /\ \E k \in 1..2 : ret_text[k] # arg1[k]

(***************************************************************************)
(* C13 - toSimplified, toTraditional and same have no side effects:        *)
(* neither inventory is changed by a call to them.                         *)
(***************************************************************************)
C13_ConversionsLeaveInventories ==
    op \in (Converters \cup {"same"}) =>
        /\ simplified_charmap = old_simplified
        /\ traditional_charmap = old_traditional

\* a conversion that substituted a character
C13_Witness ==
    /\ op \in Converters
    /\ raised = "none"
    /\ ret_text # arg1
    /\ simplified_charmap # traditional_charmap

(***************************************************************************)
(* Groups of an argument, read off its positions                           *)
(***************************************************************************)
\* positions where a whitespace-delimited group starts
GroupStarts(chars) ==
    {i \in 1..Len(chars) : chars[i] # Space /\ (i = 1 \/ chars[i - 1] = Space)}

\* the group that starts at position i
GroupAt(chars, i) ==
    LET j == CHOOSE e \in i..Len(chars) :
                 /\ \A k \in i..e : chars[k] # Space
                 /\ (e = Len(chars) \/ chars[e + 1] = Space)
    IN  SubSeq(chars, i, j)

\* g stands somewhere in charmap, character after character
StandsIn(charmap, g) ==
    \E q \in 0..(Len(charmap) - Len(g)) : \A k \in 1..Len(g) : charmap[q + k] = g[k]

\* how many groups of chars the call takes as new for charmap
NewCount(charmap, chars) ==
    Cardinality({i \in GroupStarts(chars) : ~StandsIn(charmap, GroupAt(chars, i))})

C15_NoDuplicateAdded(old, new) ==
    \A c \in Chars :
        IF Occurs(old, c) THEN Count(new, c) = Count(old, c) ELSE Count(new, c) <= 1

C15_ExtendAddsOnlyAbsent ==
    (op = "extend_char_map" /\ raised = "none") =>
        /\ C15_NoDuplicateAdded(old_simplified, simplified_charmap)
        /\ C15_NoDuplicateAdded(old_traditional, traditional_charmap)

(***************************************************************************)
(* C18 - extend_char_map is append-only: after a call that returns without *)
(* error the previous inventories are prefixes of the new ones, and every  *)
(* character that was convertible before converts to the same result       *)
(* afterwards, in both directions.                                         *)
(***************************************************************************)
IsPrefix(old, new) ==
    Len(old) <= Len(new) /\ \A i \in 1..Len(old) : new[i] = old[i]

C18_SameConversion(c, toTrad) ==
    LET before == convert(old_simplified, old_traditional, <<c>>, toTrad)
        source == IF toTrad THEN old_simplified ELSE old_traditional
    IN  (Occurs(source, c) /\ before.raised = "none") =>
            convert(simplified_charmap, traditional_charmap, <<c>>, toTrad) = before

C18_ExtendAppendOnly ==
    (op = "extend_char_map" /\ raised = "none") =>
        /\ IsPrefix(old_simplified, simplified_charmap)
        /\ IsPrefix(old_traditional, traditional_charmap)
        /\ \A c \in Chars : C18_SameConversion(c, TRUE) /\ C18_SameConversion(c, FALSE)

\* both inventories grew and a character mapped before is still mapped
C18_Witness ==
    /\ op = "extend_char_map"
    /\ raised = "none"
    /\ Len(simplified_charmap) > Len(old_simplified)
    /\ Len(traditional_charmap) > Len(old_traditional)
    /\ \E c \in Chars :
          /\ Occurs(old_simplified, c)
          /\ convert(simplified_charmap, traditional_charmap, <<c>>, TRUE)
                = [raised |-> "none", text |-> <<c>>]

(***************************************************************************)
(* C16 - Invariant I2 under extend_char_map: after a call that returns     *)
(* without error on inventories of equal length, each new trailing index k *)
(* holds a pair (simplified[k], traditional[k]) that the caller supplied   *)
(* as a pair, i.e. the two characters stood at the same position j of the  *)
(* flattened arguments.                                                    *)
(***************************************************************************)
Flattened(chars) == SelectSeq(chars, LAMBDA x : x # Space)

C16_SuppliedPair(s, t) ==
    \E j \in 1..Len(Flattened(arg1)) :
        /\ j <= Len(Flattened(arg2))
        /\ Flattened(arg1)[j] = s
        /\ Flattened(arg2)[j] = t

C16_ExtendPairsAsSupplied ==
    ( /\ op = "extend_char_map"
      /\ raised = "none"
      /\ Len(old_simplified) = Len(old_traditional) )
    => \A k \in (Len(old_simplified) + 1)..Len(simplified_charmap) :
           /\ k <= Len(traditional_charmap)
           /\ C16_SuppliedPair(simplified_charmap[k], traditional_charmap[k])

(***************************************************************************)
(* C17 - A reader interleaved with a mutator at statement granularity      *)
(* never uses the two inventories in a partially edited state: its source  *)
(* and target inventories have equal length and are both the inventories   *)
(* before the mutation or both the inventories the mutation leaves.        *)
(***************************************************************************)
\* the inventories the mutator call leaves when it runs alone
C17_After ==
    IF op = "ignore_char_map"
    THEN IgnoreResult(old_simplified, old_traditional, arg1, arg2)
    ELSE ExtendResult(old_simplified, old_traditional, arg1, arg2)

C17_ReaderSeesOneVersion ==
    reader.pc \in {"c117", "done"} =>
        LET used_s == IF reader.toTrad THEN reader.fromMap ELSE reader.toMap
            used_t == IF reader.toTrad THEN reader.toMap ELSE reader.fromMap
        IN  /\ Len(used_s) = Len(used_t)
            /\ \/ used_s = old_simplified /\ used_t = old_traditional
               \/ used_s = C17_After.simp /\ used_t = C17_After.trad
====
